---- MODULE Spec2Model ----
(***************************************************************************)
(* effect-json: the text-boundary-aware lexical layer.                     *)
(*   - LineBuffer (backends/jsonLines.ts): streaming line segmenter        *)
(*   - parseStream (backends/jsonLines.ts): segmenter + per-line decode    *)
(*   - stripComments (utils): JSONC comment stripper                       *)
(* Strings are sequences of one-character strings.                         *)
(***************************************************************************)
EXTENDS Integers, Sequences, FiniteSets, TLC

\* ------------------------------------------------------------------ bounds
\* Longest JSON-Lines text fed to the segmenter / the stream.
MaxLen == 5
\* Most empty chunks a chunk source delivers in one run.
MaxEmptyChunks == 1

\* Longest JSONC text given to stripComments.
StripMaxLen == 5

\* Longest text given to getLineColumn and buildSnippet.
LocMaxLen == 5
\* How far past the end of the text an offset may lie.
MaxPastEnd == 2

\* Longest input of stripComments made of comment and quote characters only.
QuoteMaxLen == 6

\* Characters of the JSON-Lines texts: a digit, a character that is no JSON,
\* a blank, and the two line-terminator characters.
LineChars == {"1", "x", " ", "\n", "\r"}

\* Characters of the JSONC texts: the four characters stripComments tests
\* for besides the newline, and one it does not.
StripChars == {"/", "*", "\"", "\\", "\n", "a"}

\* Characters of the texts located in: none of them starts a JSON value, so
\* JSON.parse throws on every text over them.
LocChars == {"a", " ", "\n"}

\* Characters of the inputs of stripComments that hold quotes in comments.
QuoteChars == {"/", "*", "\"", "\n"}

\* All strings over alphabet A of length at most n.
StringsUpTo(A, n) == UNION {[1..k -> A] : k \in 0..n}

\* ------------------------------------------------------- JS string helpers
\* The characters String.prototype.trim removes (those of the alphabets used).
WhiteSpace == {" ", "\n", "\r"}

\* s.slice(from, to) with 0-based from (inclusive) and to (exclusive).
Slice(s, from, to) == SubSeq(s, from + 1, to)

\* s.lastIndexOf(c): 0-based index of the last c, -1 when there is none.
LastIndexOf(s, c) ==
    IF \E p \in 1..Len(s) : s[p] = c
    THEN (CHOOSE p \in 1..Len(s) : s[p] = c /\ \A j \in (p+1)..Len(s) : s[j] # c) - 1
    ELSE -1

\* s.indexOf(c): 0-based index of the first c, -1 when there is none.
IndexOf(s, c) ==
    IF \E p \in 1..Len(s) : s[p] = c
    THEN (CHOOSE p \in 1..Len(s) : s[p] = c /\ \A j \in 1..(p-1) : s[j] # c) - 1
    ELSE -1

\* s.split(c): the pieces between the occurrences of c (always at least one).
RECURSIVE Split(_, _)
Split(s, c) ==
    LET k == IndexOf(s, c)
    IN IF k = -1 THEN <<s>>
       ELSE <<Slice(s, 0, k)>> \o Split(Slice(s, k + 1, Len(s)), c)

\* s.trim(): s without its leading and trailing white space.
RECURSIVE Trim(_)
Trim(s) ==
    IF s = <<>> THEN s
    ELSE IF s[1] \in WhiteSpace THEN Trim(Tail(s))
    ELSE IF s[Len(s)] \in WhiteSpace THEN Trim(SubSeq(s, 1, Len(s) - 1))
    ELSE s

\* ------------------------------------------------------------- LineBuffer
\* A new LineBuffer(): buffer = "", lineNumber = 0.
NewLineBuffer == [buffer |-> <<>>, lineNumber |-> 0]

\* A mutant of the for-loop: the counter advances on blank lines too.
RECURSIVE PushLinesCountsBlank(_, _, _)
PushLinesCountsBlank(splitLines, n, acc) ==
    IF splitLines = <<>> THEN [lineNumber |-> n, lines |-> acc]
    ELSE LET line == Head(splitLines)
         IN IF Len(Trim(line)) > 0
            THEN PushLinesCountsBlank(Tail(splitLines), n + 1,
                           Append(acc, [line |-> line, lineNumber |-> n + 1]))
            ELSE PushLinesCountsBlank(Tail(splitLines), n + 1, acc)

\* The for-loop of processChunk over the split lines: a line whose trim is
\* non-empty advances the counter and is pushed untrimmed.
RECURSIVE PushLines(_, _, _)
PushLines(splitLines, n, acc) ==
    IF splitLines = <<>> THEN [lineNumber |-> n, lines |-> acc]
    ELSE LET line == Head(splitLines)
         IN IF Len(Trim(line)) > 0
            THEN PushLines(Tail(splitLines), n + 1,
                           Append(acc, [line |-> line, lineNumber |-> n + 1]))
            ELSE PushLines(Tail(splitLines), n, acc)

\* A mutant of processChunk: the chunk replaces the buffer instead of being
\* appended to it, so a line begun in an earlier chunk loses its beginning.
ProcessChunkForgetsPending(b, chunk) ==
    LET buf == chunk
        lastNewlineIndex == LastIndexOf(buf, "\n")
    IN IF lastNewlineIndex = -1
       THEN [buffer |-> buf, lineNumber |-> b.lineNumber, lines |-> <<>>]
       ELSE LET completeText == Slice(buf, 0, lastNewlineIndex)
                pushed == PushLines(Split(completeText, "\n"), b.lineNumber, <<>>)
            IN [buffer |-> Slice(buf, lastNewlineIndex + 1, Len(buf)),
                lineNumber |-> pushed.lineNumber, lines |-> pushed.lines]

\* A mutant of processChunk: without a newline in the buffer the text held so
\* far is handed out at once as a record.
ProcessChunkEmitsPartial(b, chunk) ==
    LET buf == b.buffer \o chunk
        lastNewlineIndex == LastIndexOf(buf, "\n")
    IN IF lastNewlineIndex = -1
       THEN LET pushed == PushLines(<<buf>>, b.lineNumber, <<>>)
            IN [buffer |-> <<>>, lineNumber |-> pushed.lineNumber,
                lines |-> pushed.lines]
       ELSE LET completeText == Slice(buf, 0, lastNewlineIndex)
                pushed == PushLines(Split(completeText, "\n"), b.lineNumber, <<>>)
            IN [buffer |-> Slice(buf, lastNewlineIndex + 1, Len(buf)),
                lineNumber |-> pushed.lineNumber, lines |-> pushed.lines]

\* A mutant of processChunk: the last newline stays in the buffer.
ProcessChunkKeepsTerminator(b, chunk) ==
    LET buf == b.buffer \o chunk
        lastNewlineIndex == LastIndexOf(buf, "\n")
    IN IF lastNewlineIndex = -1
       THEN [buffer |-> buf, lineNumber |-> b.lineNumber, lines |-> <<>>]
       ELSE LET completeText == Slice(buf, 0, lastNewlineIndex)
                pushed == PushLines(Split(completeText, "\n"), b.lineNumber, <<>>)
            IN [buffer |-> Slice(buf, lastNewlineIndex, Len(buf)),
                lineNumber |-> pushed.lineNumber, lines |-> pushed.lines]

\* LineBuffer.processChunk(chunk) on the LineBuffer b: the new buffer, the new
\* counter and the records returned.
ProcessChunk(b, chunk) ==
    LET buf == b.buffer \o chunk
        lastNewlineIndex == LastIndexOf(buf, "\n")
    IN IF lastNewlineIndex = -1
       THEN [buffer |-> buf, lineNumber |-> b.lineNumber, lines |-> <<>>]
       ELSE LET completeText == Slice(buf, 0, lastNewlineIndex)
                pushed == PushLines(Split(completeText, "\n"), b.lineNumber, <<>>)
            IN [buffer |-> Slice(buf, lastNewlineIndex + 1, Len(buf)),
                lineNumber |-> pushed.lineNumber, lines |-> pushed.lines]

\* A mutant of flush: the pending text is never handed out.
FlushDropsPending(b) ==
    [buffer |-> b.buffer, lineNumber |-> b.lineNumber, lines |-> <<>>]

\* LineBuffer.flush() on the LineBuffer b. The buffer itself is left as it is.
Flush(b) ==
    IF Len(Trim(b.buffer)) > 0
    THEN [buffer |-> b.buffer, lineNumber |-> b.lineNumber + 1,
          lines |-> <<[line |-> Trim(b.buffer), lineNumber |-> b.lineNumber + 1]>>]
    ELSE [buffer |-> b.buffer, lineNumber |-> b.lineNumber, lines |-> <<>>]

\* -------------------------------------------------------------- splitLines
\* input.replace(/\r\n/g, "\n")
RECURSIVE ReplaceCrLf(_)
ReplaceCrLf(s) ==
    IF s = <<>> THEN <<>>
    ELSE IF Len(s) >= 2 /\ s[1] = "\r" /\ s[2] = "\n"
         THEN <<"\n">> \o ReplaceCrLf(SubSeq(s, 3, Len(s)))
         ELSE <<s[1]>> \o ReplaceCrLf(Tail(s))

\* splitLines(input): the lines of the normalized input whose trim is not
\* empty, untrimmed.
SplitLines(s) ==
    SelectSeq(Split(ReplaceCrLf(s), "\n"), LAMBDA line : Len(Trim(line)) > 0)

\* ------------------------------------------------------------- JSON codec
\* The white space JSON.parse skips around a value (those of LineChars).
JsonWhiteSpace == {" ", "\n", "\r"}

RECURSIVE JsonTrim(_)
JsonTrim(s) ==
    IF s = <<>> THEN s
    ELSE IF s[1] \in JsonWhiteSpace THEN JsonTrim(Tail(s))
    ELSE IF s[Len(s)] \in JsonWhiteSpace THEN JsonTrim(SubSeq(s, 1, Len(s) - 1))
    ELSE s

\* JSON.parse on texts over LineChars: white space around one number made of
\* the digit 1 is a value (the digits stand for it); anything else throws.
JsonValid(s) ==
    LET v == JsonTrim(s)
    IN v # <<>> /\ \A p \in 1..Len(v) : v[p] = "1"

JsonParse(s) == JsonTrim(s)

\* A mutant of parseLine: the error carries the constant it uses for `line`.
ParseLineReportsLineOne(line, n) ==
    IF JsonValid(line)
    THEN [ok |-> TRUE, value |-> JsonParse(line)]
    ELSE [ok |-> FALSE,
          error |-> [tag |-> "JsonLinesParseError", lineNumber |-> 1, line |-> 1]]

\* parseLine(line, lineNumber): the decoded value, or a JsonLinesParseError
\* that carries lineNumber.
ParseLine(line, n) ==
    IF JsonValid(line)
    THEN [ok |-> TRUE, value |-> JsonParse(line)]
    ELSE [ok |-> FALSE,
          error |-> [tag |-> "JsonLinesParseError", lineNumber |-> n, line |-> 1]]

\* A mutant of the per-line effect: the line number is the 0-based index.
ParseBatchLineZeroBased(lines, index) == ParseLine(lines[index + 1], index)

\* The element lines.map makes for the line at the 0-based index:
\* parseLine(line, index + 1).
ParseBatchLine(lines, index) == ParseLine(lines[index + 1], index + 1)

\* ---------------------------------------------------------- stripComments
\* input[i + 1] when i + 1 is past the end of the input.
Undefined == ""

\* The four flags as stripComments declares them.
StripFlags0 ==
    [inString |-> FALSE, inComment |-> FALSE,
     inMultilineComment |-> FALSE, escapeNext |-> FALSE]

\* What one iteration of the loop does: the flags after it, whether char is
\* pushed to result, and whether i is advanced past nextChar as well.
Iter(f, push, skip) == [flags |-> f, push |-> push, skip |-> skip]

\* if (escapeNext) { result.push(char); escapeNext = false; continue; }
EscapedStep(f, char, nextChar) ==
    Iter([f EXCEPT !.escapeNext = FALSE], TRUE, FALSE)

\* A mutant of the branch outside strings and comments: a backslash escapes
\* the next character there too.
NormalStepEscapes(f, char, nextChar) ==
    IF char = "\"" THEN Iter([f EXCEPT !.inString = TRUE], TRUE, FALSE)
    ELSE IF char = "/" /\ nextChar = "/"
    THEN Iter([f EXCEPT !.inComment = TRUE], FALSE, TRUE)
    ELSE IF char = "/" /\ nextChar = "*"
    THEN Iter([f EXCEPT !.inMultilineComment = TRUE], FALSE, TRUE)
    ELSE IF char = "\\" THEN Iter([f EXCEPT !.escapeNext = TRUE], TRUE, FALSE)
    ELSE Iter(f, TRUE, FALSE)

\* A mutant of the branch outside strings and comments: the "/" that opens a
\* block comment is kept.
NormalStepKeepsSlash(f, char, nextChar) ==
    IF char = "\"" THEN Iter([f EXCEPT !.inString = TRUE], TRUE, FALSE)
    ELSE IF char = "/" /\ nextChar = "/"
    THEN Iter([f EXCEPT !.inComment = TRUE], FALSE, TRUE)
    ELSE IF char = "/" /\ nextChar = "*"
    THEN Iter([f EXCEPT !.inMultilineComment = TRUE], TRUE, TRUE)
    ELSE Iter(f, TRUE, FALSE)

\* A mutant of the branch outside strings and comments: the second character
\* of a comment opener is not skipped.
NormalStepNoSkip(f, char, nextChar) ==
    IF char = "\"" THEN Iter([f EXCEPT !.inString = TRUE], TRUE, FALSE)
    ELSE IF char = "/" /\ nextChar = "/"
    THEN Iter([f EXCEPT !.inComment = TRUE], FALSE, FALSE)
    ELSE IF char = "/" /\ nextChar = "*"
    THEN Iter([f EXCEPT !.inMultilineComment = TRUE], FALSE, FALSE)
    ELSE Iter(f, TRUE, FALSE)

\* The branch !inString && !inComment && !inMultilineComment.
NormalStep(f, char, nextChar) ==
    IF char = "\"" THEN Iter([f EXCEPT !.inString = TRUE], TRUE, FALSE)
    ELSE IF char = "/" /\ nextChar = "/"
    THEN Iter([f EXCEPT !.inComment = TRUE], FALSE, TRUE)
    ELSE IF char = "/" /\ nextChar = "*"
    THEN Iter([f EXCEPT !.inMultilineComment = TRUE], FALSE, TRUE)
    ELSE Iter(f, TRUE, FALSE)

\* A mutant of the string branch: a backslash does not escape what follows.
StringStepNoEscape(f, char, nextChar) ==
    IF char = "\\" THEN Iter(f, TRUE, FALSE)
    ELSE IF char = "\"" THEN Iter([f EXCEPT !.inString = FALSE], TRUE, FALSE)
    ELSE Iter(f, TRUE, FALSE)

\* A mutant of the string branch: a line comment may start inside a string.
StringStepSeesComment(f, char, nextChar) ==
    IF char = "\\" THEN Iter([f EXCEPT !.escapeNext = TRUE], TRUE, FALSE)
    ELSE IF char = "\"" THEN Iter([f EXCEPT !.inString = FALSE], TRUE, FALSE)
    ELSE IF char = "/" /\ nextChar = "/"
    THEN Iter([f EXCEPT !.inString = FALSE, !.inComment = TRUE], FALSE, TRUE)
    ELSE Iter(f, TRUE, FALSE)

\* The branch inString.
StringStep(f, char, nextChar) ==
    IF char = "\\" THEN Iter([f EXCEPT !.escapeNext = TRUE], TRUE, FALSE)
    ELSE IF char = "\"" THEN Iter([f EXCEPT !.inString = FALSE], TRUE, FALSE)
    ELSE Iter(f, TRUE, FALSE)

\* A mutant of the line-comment branch: the newline that ends the comment is
\* swallowed with it.
LineCommentStepDropsNewline(f, char, nextChar) ==
    IF char = "\n" THEN Iter([f EXCEPT !.inComment = FALSE], FALSE, FALSE)
    ELSE Iter(f, FALSE, FALSE)

\* A mutant of the line-comment branch: a quote opens a string literal.
LineCommentStepSeesQuote(f, char, nextChar) ==
    IF char = "\n" THEN Iter([f EXCEPT !.inComment = FALSE], TRUE, FALSE)
    ELSE IF char = "\""
    THEN Iter([f EXCEPT !.inComment = FALSE, !.inString = TRUE], FALSE, FALSE)
    ELSE Iter(f, FALSE, FALSE)

\* The branch inComment.
LineCommentStep(f, char, nextChar) ==
    IF char = "\n" THEN Iter([f EXCEPT !.inComment = FALSE], TRUE, FALSE)
    ELSE Iter(f, FALSE, FALSE)

\* A mutant of the block-comment branch: newlines inside are not kept.
BlockCommentStepDropsNewline(f, char, nextChar) ==
    IF char = "*" /\ nextChar = "/"
    THEN Iter([f EXCEPT !.inMultilineComment = FALSE], FALSE, TRUE)
    ELSE Iter(f, FALSE, FALSE)

\* A mutant of the block-comment branch: a newline ends the comment, as it
\* ends a line comment.
BlockCommentStepEndsAtNewline(f, char, nextChar) ==
    IF char = "*" /\ nextChar = "/"
    THEN Iter([f EXCEPT !.inMultilineComment = FALSE], FALSE, TRUE)
    ELSE IF char = "\n"
    THEN Iter([f EXCEPT !.inMultilineComment = FALSE], TRUE, FALSE)
    ELSE Iter(f, FALSE, FALSE)

\* A mutant of the block-comment branch: the "/" of the closing "*/" is not
\* skipped.
BlockCommentStepNoSkip(f, char, nextChar) ==
    IF char = "*" /\ nextChar = "/"
    THEN Iter([f EXCEPT !.inMultilineComment = FALSE], FALSE, FALSE)
    ELSE IF char = "\n" THEN Iter(f, TRUE, FALSE)
    ELSE Iter(f, FALSE, FALSE)

\* The branch inMultilineComment.
BlockCommentStep(f, char, nextChar) ==
    IF char = "*" /\ nextChar = "/"
    THEN Iter([f EXCEPT !.inMultilineComment = FALSE], FALSE, TRUE)
    ELSE IF char = "\n" THEN Iter(f, TRUE, FALSE)
    ELSE Iter(f, FALSE, FALSE)

\* The body of the for-loop, with the branches in the order of the code.
StripStep(f, char, nextChar) ==
    IF f.escapeNext THEN EscapedStep(f, char, nextChar)
    ELSE IF ~f.inString /\ ~f.inComment /\ ~f.inMultilineComment
    THEN NormalStep(f, char, nextChar)
    ELSE IF f.inString THEN StringStep(f, char, nextChar)
    ELSE IF f.inComment THEN LineCommentStep(f, char, nextChar)
    ELSE IF f.inMultilineComment THEN BlockCommentStep(f, char, nextChar)
    ELSE Iter(f, FALSE, FALSE)

\* The for-loop of stripComments from index idx (0-based) on, with the flags
\* f and the characters acc pushed so far.
RECURSIVE StripLoop(_, _, _, _)
StripLoop(s, idx, f, acc) ==
    IF idx >= Len(s) THEN acc
    ELSE LET char == s[idx + 1]
             nextChar == IF idx + 2 <= Len(s) THEN s[idx + 2] ELSE Undefined
             it == StripStep(f, char, nextChar)
         IN StripLoop(s, IF it.skip THEN idx + 2 ELSE idx + 1, it.flags,
                      IF it.push THEN Append(acc, char) ELSE acc)

\* stripComments(input)
StripComments(s) == StripLoop(s, 0, StripFlags0, <<>>)

\* ---------------------------------------------------------- getLineColumn
\* A mutant of the loop: a line is taken only when it reaches past the offset.
RECURSIVE LineColumnLoopStrict(_, _, _, _)
LineColumnLoopStrict(lines, idx, currentPos, position) ==
    IF idx >= Len(lines) THEN [line |-> 1, column |-> 1]
    ELSE LET lineLength == Len(lines[idx + 1])
         IN IF currentPos + lineLength > position
            THEN [line |-> idx + 1, column |-> position - currentPos + 1]
            ELSE LineColumnLoopStrict(lines, idx + 1,
                                      currentPos + lineLength + 1, position)

\* A mutant of the loop: the column is left 0-based, as buildSnippet has it.
RECURSIVE LineColumnLoopZeroBased(_, _, _, _)
LineColumnLoopZeroBased(lines, idx, currentPos, position) ==
    IF idx >= Len(lines) THEN [line |-> 1, column |-> 1]
    ELSE LET lineLength == Len(lines[idx + 1])
         IN IF currentPos + lineLength >= position
            THEN [line |-> idx + 1, column |-> position - currentPos]
            ELSE LineColumnLoopZeroBased(lines, idx + 1,
                                         currentPos + lineLength + 1, position)

\* The for-loop of getLineColumn from line index idx (0-based) on; falling
\* out of the loop returns { line: 1, column: 1 }.
RECURSIVE LineColumnLoop(_, _, _, _)
LineColumnLoop(lines, idx, currentPos, position) ==
    IF idx >= Len(lines) THEN [line |-> 1, column |-> 1]
    ELSE LET lineLength == Len(lines[idx + 1])
         IN IF currentPos + lineLength >= position
            THEN [line |-> idx + 1, column |-> position - currentPos + 1]
            ELSE LineColumnLoop(lines, idx + 1, currentPos + lineLength + 1,
                                position)

\* getLineColumn(input, position), position a 0-based offset.
GetLineColumn(s, position) == LineColumnLoop(Split(s, "\n"), 0, 0, position)

\* ----------------------------------------------------------- buildSnippet
\* c.repeat(n)
Repeat(c, n) == [k \in 1..n |-> c]

\* A mutant of the loop: the caret is indented by the 1-based column.
RECURSIVE SnippetLoopOneBased(_, _, _, _, _)
SnippetLoopOneBased(s, lines, idx, currentPos, position) ==
    IF idx >= Len(lines) THEN s
    ELSE LET line == lines[idx + 1]
             lineLength == Len(line)
         IN IF currentPos + lineLength >= position
            THEN LET column == position - currentPos + 1
                     pointer == Repeat(" ", column) \o <<"^">>
                 IN line \o <<"\n">> \o pointer
            ELSE SnippetLoopOneBased(s, lines, idx + 1,
                                     currentPos + lineLength + 1, position)

\* The for-loop of buildSnippet from line index idx (0-based) on; falling out
\* of the loop returns the input itself.
RECURSIVE SnippetLoop(_, _, _, _, _)
SnippetLoop(s, lines, idx, currentPos, position) ==
    IF idx >= Len(lines) THEN s
    ELSE LET line == lines[idx + 1]
             lineLength == Len(line)
         IN IF currentPos + lineLength >= position
            THEN LET column == position - currentPos
                     pointer == Repeat(" ", column) \o <<"^">>
                 IN line \o <<"\n">> \o pointer
            ELSE SnippetLoop(s, lines, idx + 1, currentPos + lineLength + 1,
                             position)

\* buildSnippet(input, position), position a 0-based offset.
BuildSnippet(s, position) == SnippetLoop(s, Split(s, "\n"), 0, 0, position)

\* ------------------------------------------------------------------ state
VARIABLES
    pc,          \* position of the caller / of the stream run
    text,        \* the whole text the chunk source delivers
    rest,        \* the part of text not yet delivered
    nEmpty,      \* empty chunks delivered so far
    splitMid,    \* some chunk ended inside a line
    lineBuffer,  \* the LineBuffer instance: [buffer, lineNumber]
    records,     \* the records the segmenter has handed out, in order
    flushLines,  \* parseStream: the array the concatenated stream replays
    queue,       \* parseStream: records waiting for parseLine
    values,      \* parseStream: the values the output stream has emitted
    err,         \* parseStream: the error that failed the stream, or NoError
    lastRec,     \* parseStream: the record parseLine was last called on
    input,       \* stripComments: its argument
    i,           \* stripComments: the loop index (0-based)
    flags,       \* stripComments: inString, inComment, inMultilineComment,
                 \*                escapeNext
    result,      \* stripComments: the characters pushed so far
    scanLog,     \* stripComments: per input position consumed so far, the
                 \* flags when the loop reached it, the flags when it left
                 \* it, whether the loop body ran on it, whether it was pushed
    position,    \* locator: the 0-based offset taken from the codec's message
    located,     \* locator: what getLineColumn returned
    snippet,     \* locator: what buildSnippet returned
    fibers,      \* parseBatch: per non-blank line, the state of its fiber
    interrupted, \* parseBatch: Effect.all has seen a failure
    run,         \* parseStream: which run of the returned stream this is
    firstRun     \* parseStream: what the first run of the stream produced

vars == <<pc, text, rest, nEmpty, splitMid, lineBuffer, records,
          flushLines, queue, values, err, lastRec,
          input, i, flags, result, scanLog,
          position, located, snippet, fibers, interrupted, run, firstRun>>

stripVars == <<input, i, flags, result, scanLog>>

StripIdle ==
    /\ input = <<>>
    /\ i = 0
    /\ flags = StripFlags0
    /\ result = <<>>
    /\ scanLog = <<>>

segVars == <<pc, text, rest, nEmpty, splitMid, lineBuffer, records>>
streamVars == <<flushLines, queue, values, err, lastRec>>

auxVars == <<position, located, snippet, fibers, interrupted, run, firstRun>>

NoLocation == [line |-> 0, column |-> 0]
NoRun == [ended |-> FALSE]

AuxIdle ==
    /\ position = 0
    /\ located = NoLocation
    /\ snippet = <<>>
    /\ fibers = <<>>
    /\ interrupted = FALSE
    /\ run = 1
    /\ firstRun = NoRun

NoError == [tag |-> "none"]
NoRecord == [line |-> <<>>, lineNumber |-> 0]

StreamIdle ==
    /\ flushLines = <<>>
    /\ queue = <<>>
    /\ values = <<>>
    /\ err = NoError
    /\ lastRec = NoRecord

\* The chunk source delivers the next k characters of rest (k = 0: an empty
\* chunk) to processChunk of the LineBuffer.
Deliver(k) ==
    /\ k \in 0..Len(rest)
    /\ k = 0 => nEmpty < MaxEmptyChunks
    /\ LET r == ProcessChunk(lineBuffer, SubSeq(rest, 1, k))
       IN /\ lineBuffer' = [buffer |-> r.buffer, lineNumber |-> r.lineNumber]
          /\ records' = records \o r.lines
          /\ splitMid' = (splitMid \/ (k < Len(rest) /\ r.buffer # <<>>))
    /\ rest' = SubSeq(rest, k + 1, Len(rest))
    /\ nEmpty' = IF k = 0 THEN nEmpty + 1 ELSE nEmpty

\* ------------------------------------------- the segmenter used on its own
\* A caller owns a fresh LineBuffer, feeds it the chunks of a text in order
\* and calls flush once at the end of the stream.
SegInit ==
    /\ pc = "feeding"
    /\ text \in StringsUpTo(LineChars, MaxLen)
    /\ rest = text
    /\ nEmpty = 0
    /\ splitMid = FALSE
    /\ lineBuffer = NewLineBuffer
    /\ records = <<>>
    /\ StreamIdle
    /\ StripIdle
    /\ AuxIdle

SegFeed ==
    /\ pc = "feeding"
    /\ \E k \in 0..Len(rest) : Deliver(k)
    /\ UNCHANGED <<pc, text>>
    /\ UNCHANGED <<streamVars, stripVars, auxVars>>

\* End of the chunk source: flush.
SegFlush ==
    /\ pc = "feeding"
    /\ rest = <<>>
    /\ LET r == Flush(lineBuffer)
       IN /\ lineBuffer' = [buffer |-> r.buffer, lineNumber |-> r.lineNumber]
          /\ records' = records \o r.lines
    /\ pc' = "flushed"
    /\ UNCHANGED <<text, rest, nEmpty, splitMid>>
    /\ UNCHANGED <<streamVars, stripVars, auxVars>>

SegNext == SegFeed \/ SegFlush

SegSpec == SegInit /\ [][SegNext]_vars

\* ------------------------------- the segmenter under any sequence of calls
\* processChunk on the next chunk of the text, before or after a flush.
FreeFeed ==
    /\ pc \in {"feeding", "flushed"}
    /\ \E k \in 0..Len(rest) : Deliver(k)
    /\ UNCHANGED <<pc, text>>
    /\ UNCHANGED <<streamVars, stripVars, auxVars>>

\* flush at any moment, a second time too.
FreeFlush ==
    /\ pc \in {"feeding", "flushed"}
    /\ LET r == Flush(lineBuffer)
       IN /\ lineBuffer' = [buffer |-> r.buffer, lineNumber |-> r.lineNumber]
          /\ records' = records \o r.lines
    /\ pc' = IF pc = "feeding" THEN "flushed" ELSE "reflushed"
    /\ UNCHANGED <<text, rest, nEmpty, splitMid>>
    /\ UNCHANGED <<streamVars, stripVars, auxVars>>

SegFreeNext == FreeFeed \/ FreeFlush

SegFreeSpec == SegInit /\ [][SegFreeNext]_vars

\* ------------------------------------------------------------ parseStream
\* parseStream(input) builds the LineBuffer and, while building the pipeline,
\* evaluates the argument buffer.flush() of Effect.succeed: the concatenated
\* stream replays that array. Init is the state once parseStream has returned
\* and a run of the returned stream starts.
StreamInit ==
    /\ pc = "running"
    /\ text \in StringsUpTo(LineChars, MaxLen)
    /\ rest = text
    /\ nEmpty = 0
    /\ splitMid = FALSE
    /\ LET r == Flush(NewLineBuffer)
       IN /\ lineBuffer = [buffer |-> r.buffer, lineNumber |-> r.lineNumber]
          /\ flushLines = r.lines
    /\ records = <<>>
    /\ queue = <<>>
    /\ values = <<>>
    /\ err = NoError
    /\ lastRec = NoRecord
    /\ StripIdle
    /\ AuxIdle

\* Stream.mapEffect(processChunk) and Stream.flatMap(fromIterable): the next
\* chunk is pulled once the records of the previous one are consumed.
StreamChunk ==
    /\ pc = "running"
    /\ queue = <<>>
    /\ \E k \in 0..Len(rest) : Deliver(k)
    /\ queue' = SubSeq(records', Len(records) + 1, Len(records'))
    /\ UNCHANGED <<pc, text, flushLines, values, err, lastRec, stripVars, auxVars>>

\* Stream.concat: the input stream has ended; the stream built from the array
\* that buffer.flush() returned when parseStream was called comes next.
StreamConcat ==
    /\ pc = "running"
    /\ queue = <<>>
    /\ rest = <<>>
    /\ queue' = flushLines
    /\ records' = records \o flushLines
    /\ pc' = "flushing"
    /\ UNCHANGED <<text, rest, nEmpty, splitMid, lineBuffer, flushLines,
                   values, err, lastRec, stripVars, auxVars>>

\* A mutant of the decode step: a record that does not decode is dropped and
\* the stream goes on.
StreamDecodeSkipsFailure ==
    /\ pc \in {"running", "flushing"}
    /\ queue # <<>>
    /\ LET rec == Head(queue)
           r == ParseLine(rec.line, rec.lineNumber)
       IN /\ lastRec' = rec
          /\ queue' = Tail(queue)
          /\ values' = IF r.ok THEN Append(values, r.value) ELSE values
          /\ UNCHANGED <<pc, err>>
    /\ UNCHANGED <<text, rest, nEmpty, splitMid, lineBuffer, records, flushLines,
                   stripVars, auxVars>>

\* Stream.mapEffect(parseLine): the next record is decoded; a failure fails
\* the stream.
StreamDecode ==
    /\ pc \in {"running", "flushing"}
    /\ queue # <<>>
    /\ LET rec == Head(queue)
           r == ParseLine(rec.line, rec.lineNumber)
       IN /\ lastRec' = rec
          /\ IF r.ok
             THEN /\ values' = Append(values, r.value)
                  /\ queue' = Tail(queue)
                  /\ UNCHANGED <<pc, err>>
             ELSE /\ err' = r.error
                  /\ pc' = "failed"
                  /\ UNCHANGED <<values, queue>>
    /\ UNCHANGED <<text, rest, nEmpty, splitMid, lineBuffer, records, flushLines,
                   stripVars, auxVars>>

\* The concatenated stream is exhausted: the output stream ends.
StreamEnd ==
    /\ pc = "flushing"
    /\ queue = <<>>
    /\ pc' = "done"
    /\ UNCHANGED <<text, rest, nEmpty, splitMid, lineBuffer, records, flushLines,
                   queue, values, err, lastRec, stripVars, auxVars>>

StreamNext == StreamChunk \/ StreamConcat \/ StreamDecode \/ StreamEnd

StreamSpec == StreamInit /\ [][StreamNext]_vars

\* ------------------------------------------- the returned stream, run twice
\* The stream parseStream returned is run a second time once its first run
\* has ended: the input stream delivers the text again, and the pipeline is
\* the one built by the one call of parseStream, with its LineBuffer and the
\* array its flush returned then.
StreamRerun ==
    /\ pc \in {"done", "failed"}
    /\ run = 1
    /\ firstRun' = [ended |-> TRUE, pc |-> pc, records |-> records,
                    values |-> values, err |-> err]
    /\ run' = 2
    /\ pc' = "running"
    /\ rest' = text
    /\ nEmpty' = 0
    /\ splitMid' = FALSE
    /\ records' = <<>>
    /\ queue' = <<>>
    /\ values' = <<>>
    /\ err' = NoError
    /\ lastRec' = NoRecord
    /\ UNCHANGED <<text, lineBuffer, flushLines, stripVars, position, located,
                   snippet, fibers, interrupted>>

RerunNext == StreamNext \/ StreamRerun

RerunSpec == StreamInit /\ [][RerunNext]_vars

\* ------------------------------------------------------------- parseBatch
\* parseBatch(input) is called on a text.
BatchInit ==
    /\ pc = "batch"
    /\ text \in StringsUpTo(LineChars, MaxLen)
    /\ rest = <<>>
    /\ nEmpty = 0
    /\ splitMid = FALSE
    /\ lineBuffer = NewLineBuffer
    /\ records = <<>>
    /\ StreamIdle
    /\ StripIdle
    /\ AuxIdle

\* The fibers that have not run yet.
Pending == {n \in 1..Len(fibers) : fibers[n].state = "pending"}

\* if (lines.length === 0) return Effect.succeed([])
BatchEmpty ==
    /\ pc = "batch"
    /\ SplitLines(text) = <<>>
    /\ values' = <<>>
    /\ pc' = "succeeded"
    /\ UNCHANGED <<text, rest, nEmpty, splitMid, lineBuffer, records,
                   flushLines, queue, err, lastRec, stripVars, auxVars>>

\* Effect.all(lines.map(...), { concurrency: "unbounded" }): one fiber per
\* line is forked, in the order of the lines.
BatchFork ==
    /\ pc = "batch"
    /\ SplitLines(text) # <<>>
    /\ fibers' = [n \in 1..Len(SplitLines(text)) |-> [state |-> "pending"]]
    /\ pc' = "forked"
    /\ UNCHANGED <<text, rest, nEmpty, splitMid, lineBuffer, records,
                   streamVars, stripVars, position, located, snippet,
                   interrupted, run, firstRun>>

\* The scheduler runs the fibers in the order they were forked; parseLine is
\* synchronous, so a fiber that runs runs to its end. The first failure
\* signals the interruption of the other fibers.
BatchRunFiber ==
    /\ pc = "forked"
    /\ Pending # {}
    /\ LET n == CHOOSE q \in Pending : \A m \in Pending : q <= m
           r == ParseBatchLine(SplitLines(text), n - 1)
       IN IF r.ok
          THEN /\ fibers' = [fibers EXCEPT
                                ![n] = [state |-> "succeeded", value |-> r.value]]
               /\ UNCHANGED interrupted
          ELSE /\ fibers' = [fibers EXCEPT
                                ![n] = [state |-> "failed", error |-> r.error]]
               /\ interrupted' = TRUE
    /\ UNCHANGED <<pc, text, rest, nEmpty, splitMid, lineBuffer, records,
                   streamVars, stripVars, position, located, snippet, run,
                   firstRun>>

\* Once the interruption is signalled, a fiber that has not run yet may end
\* interrupted instead of running.
BatchInterruptFiber ==
    /\ pc = "forked"
    /\ interrupted
    /\ Pending # {}
    /\ LET n == CHOOSE q \in Pending : \A m \in Pending : q <= m
       IN fibers' = [fibers EXCEPT ![n] = [state |-> "interrupted"]]
    /\ UNCHANGED <<pc, text, rest, nEmpty, splitMid, lineBuffer, records,
                   streamVars, stripVars, position, located, snippet,
                   interrupted, run, firstRun>>

\* Every fiber has ended: the failures are collected in the order of the
\* lines and the effect fails with the first of them; without a failure it
\* succeeds with the values in the order of the lines.
BatchCollect ==
    /\ pc = "forked"
    /\ Pending = {}
    /\ LET failed == {n \in 1..Len(fibers) : fibers[n].state = "failed"}
       IN IF failed = {}
          THEN /\ values' = [n \in 1..Len(fibers) |-> fibers[n].value]
               /\ pc' = "succeeded"
               /\ UNCHANGED err
          ELSE /\ err' = fibers[CHOOSE q \in failed :
                                    \A m \in failed : q <= m].error
               /\ pc' = "failed"
               /\ UNCHANGED values
    /\ UNCHANGED <<text, rest, nEmpty, splitMid, lineBuffer, records,
                   flushLines, queue, lastRec, stripVars, auxVars>>

BatchNext == BatchEmpty \/ BatchFork \/ BatchRunFiber \/ BatchInterruptFiber
                 \/ BatchCollect

BatchSpec == BatchInit /\ [][BatchNext]_vars

\* ---------------------------------------------------------- stripComments
\* stripComments(input) is called on a text; result is empty and the flags
\* are false.
StripInit ==
    /\ pc = "scan"
    /\ input \in StringsUpTo(StripChars, StripMaxLen)
    /\ i = 0
    /\ flags = StripFlags0
    /\ result = <<>>
    /\ scanLog = <<>>
    /\ text = <<>>
    /\ rest = <<>>
    /\ nEmpty = 0
    /\ splitMid = FALSE
    /\ lineBuffer = NewLineBuffer
    /\ records = <<>>
    /\ StreamIdle
    /\ AuxIdle

\* A mutant of the iteration: what is pushed is nextChar, not char.
StripIterationPushesNext ==
    /\ pc = "scan"
    /\ i < Len(input)
    /\ LET char == input[i + 1]
           nextChar == IF i + 2 <= Len(input) THEN input[i + 2] ELSE Undefined
           it == StripStep(flags, char, nextChar)
           here == [visited |-> TRUE, pushed |-> it.push,
                    before |-> flags, after |-> it.flags]
           skipped == [visited |-> FALSE, pushed |-> FALSE,
                       before |-> it.flags, after |-> it.flags]
       IN /\ flags' = it.flags
          /\ result' = IF it.push THEN Append(result, nextChar) ELSE result
          /\ i' = IF it.skip THEN i + 2 ELSE i + 1
          /\ scanLog' = IF it.skip THEN scanLog \o <<here, skipped>>
                        ELSE Append(scanLog, here)
    /\ UNCHANGED <<pc, input, segVars, streamVars, auxVars>>

\* One iteration of the for-loop (the loop's own i++ included).
StripIteration ==
    /\ pc = "scan"
    /\ i < Len(input)
    /\ LET char == input[i + 1]
           nextChar == IF i + 2 <= Len(input) THEN input[i + 2] ELSE Undefined
           it == StripStep(flags, char, nextChar)
           here == [visited |-> TRUE, pushed |-> it.push,
                    before |-> flags, after |-> it.flags]
           skipped == [visited |-> FALSE, pushed |-> FALSE,
                       before |-> it.flags, after |-> it.flags]
       IN /\ flags' = it.flags
          /\ result' = IF it.push THEN Append(result, char) ELSE result
          /\ i' = IF it.skip THEN i + 2 ELSE i + 1
          /\ scanLog' = IF it.skip THEN scanLog \o <<here, skipped>>
                        ELSE Append(scanLog, here)
    /\ UNCHANGED <<pc, input, segVars, streamVars, auxVars>>

\* The loop ends: return result.join("").
StripReturn ==
    /\ pc = "scan"
    /\ i >= Len(input)
    /\ pc' = "stripped"
    /\ UNCHANGED <<input, i, flags, result, scanLog, text, rest, nEmpty,
                   splitMid, lineBuffer, records, streamVars, auxVars>>

StripNext == StripIteration \/ StripReturn

StripSpec == StripInit /\ [][StripNext]_vars

\* stripComments(input) on an input made of comment openers and closers,
\* quotes and newlines only.
QuoteInit ==
    /\ pc = "scan"
    /\ input \in StringsUpTo(QuoteChars, QuoteMaxLen)
    /\ i = 0
    /\ flags = StripFlags0
    /\ result = <<>>
    /\ scanLog = <<>>
    /\ text = <<>>
    /\ rest = <<>>
    /\ nEmpty = 0
    /\ splitMid = FALSE
    /\ lineBuffer = NewLineBuffer
    /\ records = <<>>
    /\ StreamIdle
    /\ AuxIdle

QuoteSpec == QuoteInit /\ [][StripNext]_vars

\* ---------------------------------------------------- jsonBackend.parse
\* JSON.parse has thrown on text; the catch handler has taken position from
\* the message (0 when the message names none).
LocInit ==
    /\ pc = "catch"
    /\ text \in StringsUpTo(LocChars, LocMaxLen)
    /\ position \in 0..(Len(text) + MaxPastEnd)
    /\ located = NoLocation
    /\ snippet = <<>>
    /\ fibers = <<>>
    /\ interrupted = FALSE
    /\ run = 1
    /\ firstRun = NoRun
    /\ rest = <<>>
    /\ nEmpty = 0
    /\ splitMid = FALSE
    /\ lineBuffer = NewLineBuffer
    /\ records = <<>>
    /\ StreamIdle
    /\ StripIdle

\* const { line, column } = getLineColumn(inputStr, position)
LocGetLineColumn ==
    /\ pc = "catch"
    /\ located' = GetLineColumn(text, position)
    /\ pc' = "located"
    /\ UNCHANGED <<text, rest, nEmpty, splitMid, lineBuffer, records,
                   streamVars, stripVars, position, snippet, fibers,
                   interrupted, run, firstRun>>

\* const snippet = buildSnippet(inputStr, position); return new ParseError
LocBuildSnippet ==
    /\ pc = "located"
    /\ snippet' = BuildSnippet(text, position)
    /\ err' = [tag |-> "ParseError", line |-> located.line,
               column |-> located.column, snippet |-> snippet']
    /\ pc' = "error"
    /\ UNCHANGED <<text, rest, nEmpty, splitMid, lineBuffer, records,
                   flushLines, queue, values, lastRec, stripVars, position,
                   located, fibers, interrupted, run, firstRun>>

LocNext == LocGetLineColumn \/ LocBuildSnippet

LocSpec == LocInit /\ [][LocNext]_vars

\* ===================================================== claims: LineBuffer
\* The lines of t that are not blank, in order (split on "\n", as written).
NonBlankLines(t) == SelectSeq(Split(t, "\n"), LAMBDA l : Trim(l) # <<>>)

\* The part of t after its last "\n" (all of t when it has none).
LastPiece(t) == Slice(t, LastIndexOf(t, "\n") + 1, Len(t))

\* The records of t fed to a fresh LineBuffer as one chunk, then flush.
OneChunkRecords(t) ==
    LET fed == ProcessChunk(NewLineBuffer, t)
        end == Flush([buffer |-> fed.buffer, lineNumber |-> fed.lineNumber])
    IN fed.lines \o end.lines

\* C2: rechunking invariance. Whatever the partition of the text into chunks
\* (single characters and empty chunks included), feeding the chunks in order
\* to a fresh segmenter and then calling flush yields exactly the records
\* (lineNumber, text) of feeding the whole text as one chunk and then flush.
C2_RechunkingInvariance ==
    pc = "flushed" => records = OneChunkRecords(text)

\* C2 witness: a flushed run whose chunking split a line in the middle and
\* held an empty chunk, with two records handed out.
C2_Witness ==
    /\ pc = "flushed"
    /\ splitMid
    /\ nEmpty = 1
    /\ Len(records) = 2

\* C3: no line is lost, duplicated or reordered. After the chunks of the text
\* and one flush, there are as many records as non-blank lines of the text,
\* and the i-th record is the i-th non-blank line (as it stands, or trimmed).
C3_NoLineLostOrReordered ==
    pc = "flushed" =>
        LET nb == NonBlankLines(text)
        IN /\ Len(records) = Len(nb)
           /\ \A n \in 1..Len(records) :
                  records[n].line \in {nb[n], Trim(nb[n])}

\* C3 witness: a flushed run over a text with a blank line between two
\* records, the last of them unterminated, split in the middle of a line.
C3_Witness ==
    /\ pc = "flushed"
    /\ splitMid
    /\ Len(records) = 2
    /\ Len(Split(text, "\n")) > 2
    /\ Trim(LastPiece(text)) # <<>>

\* C4: line numbers are a gap-free count of the records. At every moment the
\* records handed out so far are numbered 1, 2, ..., n in order and the
\* counter equals n, so a blank line never advances it.
C4_LineNumbersGapFree ==
    /\ \A n \in 1..Len(records) : records[n].lineNumber = n
    /\ pc \in {"feeding", "flushed"} => lineBuffer.lineNumber = Len(records)

\* C4 witness: a flushed run with blank lines before and between two records.
C4_Witness ==
    /\ pc = "flushed"
    /\ Len(records) = 2
    /\ Len(Split(text, "\n")) >= 4
    /\ Trim(Split(text, "\n")[1]) = <<>>

\* ==================================================== claims: parseStream
\* C1: the flush runs after every chunk has been fed. When the run of the
\* stream has ended and the text ends with a non-blank line without "\n",
\* that line was handed out (and decoded) as the last record.
C1_FinalLineEmitted ==
    (pc = "done" /\ Trim(LastPiece(text)) # <<>>) =>
        /\ records # <<>>
        /\ records[Len(records)].line = Trim(LastPiece(text))
        /\ Len(values) = Len(records)

Count(s, c) == Cardinality({j \in 1..Len(s) : s[j] = c})

\* How many newlines of s come before its position j.
NewlinesBefore(s, j) == Cardinality({m \in 1..(j - 1) : s[m] = "\n"})

\* The positions of input whose character was pushed to result.
Pushed == {j \in 1..Len(scanLog) : scanLog[j].pushed}

\* The place in result of the character pushed from position j of input.
Rank(j) == Cardinality({m \in Pushed : m <= j})

\* result is the pushed characters of input, in the order of input.
ResultIsKeptText ==
    /\ Len(result) = Cardinality(Pushed)
    /\ \A j \in Pushed : result[Rank(j)] = input[j]

Least(S) == CHOOSE q \in S : \A m \in S : q <= m

\* The first position from p on where s holds c; Len(s) + 1 without one.
NextAt(s, p, c) ==
    LET S == {q \in p..Len(s) : s[q] = c}
    IN IF S = {} THEN Len(s) + 1 ELSE Least(S)

\* The first position from p on where s holds "*/"; Len(s) + 1 without one.
NextClose(s, p) ==
    LET S == {q \in p..(Len(s) - 1) : s[q] = "*" /\ s[q + 1] = "/"}
    IN IF S = {} THEN Len(s) + 1 ELSE Least(S)

\* The number of consecutive backslashes of s right before position j.
BackslashesBefore(s, j) ==
    CHOOSE k \in 0..(j - 1) :
        /\ \A m \in (j - k)..(j - 1) : s[m] = "\\"
        /\ j - k - 1 >= 1 => s[j - k - 1] # "\\"

\* The quote that closes the string literal opened at p: the first later
\* quote with an even number of backslashes before it; Len(s) + 1 without one.
ClosingQuote(s, p) ==
    LET S == {q \in (p + 1)..Len(s) :
                 s[q] = "\"" /\ BackslashesBefore(s, q) % 2 = 0}
    IN IF S = {} THEN Len(s) + 1 ELSE Least(S)

\* The lexical structure of a JSONC text from position p on (p outside any
\* string or comment), one tag per character: "string" from an opening quote
\* through its closing quote; "comment" for "//" and what follows up to the
\* next newline, and for "/*" through the matching "*/", except the newlines
\* in between, tagged "newline"; "code" for everything else.
RECURSIVE Lex(_, _)
Lex(s, p) ==
    IF p > Len(s) THEN <<>>
    ELSE IF s[p] = "\""
    THEN LET q == IF ClosingQuote(s, p) > Len(s) THEN Len(s) ELSE ClosingQuote(s, p)
         IN [m \in 1..(q - p + 1) |-> "string"] \o Lex(s, q + 1)
    ELSE IF s[p] = "/" /\ p < Len(s) /\ s[p + 1] = "/"
    THEN LET e == NextAt(s, p + 2, "\n")
         IN [m \in 1..(e - p) |-> "comment"] \o Lex(s, e)
    ELSE IF s[p] = "/" /\ p < Len(s) /\ s[p + 1] = "*"
    THEN LET c == NextClose(s, p + 2)
             e == IF c > Len(s) THEN Len(s) ELSE c + 1
         IN [m \in 1..(e - p + 1) |->
                IF s[p + m - 1] = "\n" THEN "newline" ELSE "comment"]
            \o Lex(s, e + 1)
    ELSE <<"code">> \o Lex(s, p + 1)

\* C5: the output of stripComments holds exactly as many newlines as its
\* input, unterminated strings and comments included.
C5_NewlineCountPreserved ==
    pc = "stripped" => Count(result, "\n") = Count(input, "\n")

\* C5 witness: a text that ends inside a block comment holding a newline.
C5_Witness ==
    /\ pc = "stripped"
    /\ flags.inMultilineComment
    /\ \E j \in 1..Len(input) :
           input[j] = "\n" /\ scanLog[j].before.inMultilineComment
    /\ result # <<>>
    /\ result[1] = "a"

\* C6: every kept character stays on its line: as many newlines come before
\* it in the output as in the input, so the line getLineColumn reports for
\* its offset in the stripped text is its line in the original text.
C6_KeptCharsStayOnTheirLine ==
    pc = "stripped" =>
        /\ ResultIsKeptText
        /\ \A j \in Pushed :
               /\ NewlinesBefore(result, Rank(j)) = NewlinesBefore(input, j)
               /\ GetLineColumn(result, Rank(j) - 1).line
                      = GetLineColumn(input, j - 1).line

\* C6 witness: a character kept on the second line, after a stripped comment.
C6_Witness ==
    /\ pc = "stripped"
    /\ \E j \in Pushed :
           /\ input[j] = "a"
           /\ NewlinesBefore(input, j) = 1
           /\ Rank(j) < j

\* C7: string state has priority over comments. Every character from an
\* opening quote met outside strings and comments through its closing quote
\* is in the output, unchanged and in order; a text without a comment outside
\* its string literals is returned unchanged.
C7_StringsHavePriority ==
    pc = "stripped" =>
        LET tags == Lex(input, 1)
        IN /\ \A j \in 1..Len(input) :
                  tags[j] = "string" => j \in Pushed /\ result[Rank(j)] = input[j]
           /\ (\A j \in 1..Len(input) : tags[j] \in {"string", "code"})
                  => result = input

\* C7 witness: a closed string literal that holds a comment opener.
C7_Witness ==
    /\ pc = "stripped"
    /\ ~flags.inString
    /\ result = input
    /\ \E j \in 1..(Len(input) - 1) :
           /\ input[j] = "/"
           /\ input[j + 1] \in {"/", "*"}
           /\ scanLog[j].before.inString

\* C8: in a text whose string literals are all closed, the characters removed
\* are exactly those of the comments outside string literals: "//" and what
\* follows up to but not including the next newline (or the end), "/*"
\* through the matching "*/" except the newlines in between.
C8_ExactlyCommentsRemoved ==
    (pc = "stripped" /\ ~flags.inString) =>
        LET tags == Lex(input, 1)
        IN /\ \A j \in 1..Len(input) : j \in Pushed <=> tags[j] # "comment"
           /\ ResultIsKeptText

\* C8 witness: code, a line comment and the newline that ends it.
C8_Witness ==
    /\ pc = "stripped"
    /\ ~flags.inString
    /\ Len(input) = StripMaxLen
    /\ input[1] = "a" /\ input[2] = "/" /\ input[3] = "/"
    /\ result = <<"a", "\n">>

\* C9: in string state a quote ends the string exactly when an even number
\* of backslashes comes right before it; any other character leaves the
\* scanner in string state; every character met in string state is kept.
C9_QuoteClosesIffUnescaped ==
    \A j \in 1..Len(scanLog) :
        (scanLog[j].visited /\ scanLog[j].before.inString) =>
            /\ scanLog[j].pushed
            /\ input[j] = "\"" =>
                   (~scanLog[j].after.inString
                        <=> BackslashesBefore(input, j) % 2 = 0)
            /\ input[j] # "\"" => scanLog[j].after.inString

\* C9 witness: an escaped quote followed, inside the string, by a comment
\* opener that is kept.
C9_Witness ==
    /\ pc = "stripped"
    /\ \E j \in 1..(Len(input) - 2) :
           /\ input[j] = "\""
           /\ scanLog[j].before.inString
           /\ scanLog[j].before.escapeNext
           /\ input[j + 1] = "/"
           /\ input[j + 2] \in {"/", "*"}
           /\ {j + 1, j + 2} \subseteq Pushed

\* C20: at every position of the scan at most one of inString, inComment and
\* inMultilineComment is set (none set is the normal state, so exactly one of
\* the four states is active), and escapeNext is set only in string state.
C20_OneStateActive ==
    /\ Cardinality({f \in {"inString", "inComment", "inMultilineComment"} :
                       flags[f]}) <= 1
    /\ flags.escapeNext => flags.inString

\* C20 witness: the scan, having left a line comment earlier, stands in a
\* string right after a backslash.
C20_Witness ==
    /\ pc = "scan"
    /\ flags.inString
    /\ flags.escapeNext
    /\ \E j \in 1..Len(scanLog) :
           scanLog[j].visited /\ scanLog[j].before.inComment

\* ============================================ claims: locating an offset
\* C12: for an offset within the text (its end included) getLineColumn
\* returns line = 1 + the number of newlines strictly before the offset and
\* column = offset - start of that line + 1; an offset at a newline belongs
\* to the line the newline ends.
C12_LineColumnWithinText ==
    (pc \in {"located", "error"} /\ position <= Len(text)) =>
        LET before == SubSeq(text, 1, position)
            lineStart == LastIndexOf(before, "\n") + 1
        IN /\ located.line = 1 + Count(before, "\n")
           /\ located.column = position - lineStart + 1

\* C12 witness: an offset at the newline that ends the second line.
C12_Witness ==
    /\ pc = "located"
    /\ position < Len(text)
    /\ text[position + 1] = "\n"
    /\ located.line = 2
    /\ located.column = 2

\* C13: for an offset past the end of the text the locator returns the last
\* line of the text, with column = length of the last line + 1.
C13_PastEndIsLastLine ==
    (pc \in {"located", "error"} /\ position > Len(text)) =>
        LET lines == Split(text, "\n")
        IN /\ located.line = Len(lines)
           /\ located.column = Len(lines[Len(lines)]) + 1

\* C14: the snippet is exactly two lines joined by one newline: a line of
\* the text, then a caret line of spaces ended by "^".
C14_SnippetHasTwoLines ==
    pc = "error" =>
        /\ Count(snippet, "\n") = 1
        /\ LET parts == Split(snippet, "\n")
           IN /\ parts[1] \in {Split(text, "\n")[n] :
                                   n \in 1..Len(Split(text, "\n"))}
              /\ parts[2] # <<>>
              /\ parts[2][Len(parts[2])] = "^"
              /\ \A n \in 1..(Len(parts[2]) - 1) : parts[2][n] = " "

\* C15: the reported line and column are both at least 1, for every text
\* and every offset from 0 on, past the end included; so are those of the
\* ParseError that jsonBackend.parse builds from them.
C15_LineColumnPositive ==
    /\ pc \in {"located", "error"} => located.line >= 1 /\ located.column >= 1
    /\ pc = "error" => err.line >= 1 /\ err.column >= 1

\* C15 witness: a ParseError for an offset past the end of a text of several
\* lines.
C15_Witness ==
    /\ pc = "error"
    /\ err.tag = "ParseError"
    /\ position > Len(text)
    /\ Len(Split(text, "\n")) >= 2

\* ========================================== claims: the records' texts
\* The texts of the records rs, in order.
RecordTexts(rs) == [n \in 1..Len(rs) |-> rs[n].line]

\* C16: every record handed out, by processChunk or by flush, has a text
\* equal to its own trim: no leading and no trailing whitespace.
C16_RecordsAreTrimmed ==
    \A n \in 1..Len(records) : records[n].line = Trim(records[n].line)

\* Every "\r" of t is followed at once by "\n": t ends its lines with "\n"
\* or "\r\n".
CrLfOnly(t) == \A n \in 1..Len(t) : t[n] = "\r" => (n < Len(t) /\ t[n + 1] = "\n")

\* C17: for a text whose lines end with "\n" or "\r\n", under every chunking
\* no record text holds "\n" or "\r", and the records' texts are those of the
\* same text with every "\r\n" written as "\n".
C17_NoLineTerminatorInRecords ==
    CrLfOnly(text) =>
        /\ \A n \in 1..Len(records) : \A m \in 1..Len(records[n].line) :
               records[n].line[m] \notin {"\n", "\r"}
        /\ pc = "flushed" =>
               RecordTexts(records) =
                   RecordTexts(OneChunkRecords(ReplaceCrLf(text)))

\* How many characters of s are not whitespace.
Visible(s) == Cardinality({n \in 1..Len(s) : s[n] \notin WhiteSpace})

\* How many characters of the records rs are not whitespace.
RECURSIVE VisibleIn(_)
VisibleIn(rs) ==
    IF rs = <<>> THEN 0 ELSE Visible(Head(rs).line) + VisibleIn(Tail(rs))

\* C18: a record is never handed out twice. Under any sequence of
\* processChunk and flush calls on one LineBuffer, the text a call has
\* returned is no longer pending (after a flush nothing but whitespace is),
\* so the records never hold more characters than the chunks fed so far.
C18_NeverEmittedTwice ==
    /\ pc = "reflushed" => Trim(lineBuffer.buffer) = <<>>
    /\ VisibleIn(records) <=
           Visible(SubSeq(text, 1, Len(text) - Len(rest)))

\* ================================================ claims: the stream's runs
\* C19: the LineBuffer lives for one run of the stream. Every run starts with
\* an empty buffer and counter 0, and a second run of the same stream ends as
\* the first did, with the same values or the same error (its line number
\* included) and, when it ends normally, the same records.
C19_StatePerRun ==
    /\ (pc = "running" /\ rest = text /\ nEmpty = 0 /\ records = <<>>) =>
           lineBuffer = NewLineBuffer
    /\ (run = 2 /\ pc \in {"done", "failed"}) =>
           /\ pc = firstRun.pc
           /\ values = firstRun.values
           /\ err = firstRun.err
           /\ pc = "done" => records = firstRun.records

\* ===================================================== claims: parseBatch
\* The non-blank lines of t that do not decode, by their position among the
\* non-blank lines.
FailingLines(t) ==
    {n \in 1..Len(NonBlankLines(t)) : ~JsonValid(NonBlankLines(t)[n])}

C21_SnippetAgreesWithLocation ==
    (pc = "error" /\ position <= Len(text)) =>
        /\ located.line \in 1..Len(Split(text, "\n"))
        /\ snippet = Split(text, "\n")[located.line] \o <<"\n">>
                         \o Repeat(" ", located.column - 1) \o <<"^">>

\* C21 witness: a ParseError located on the second line of the text, past
\* the first column.
C21_Witness ==
    /\ pc = "error"
    /\ position <= Len(text)
    /\ located.line = 2
    /\ located.column = 3
    /\ Count(snippet, " ") >= 2

\* ============================================ claims: order of decoding
\* C22: records are decoded strictly in emission order and the stream stops
\* at the first failure. The values emitted so far are always the decoded
\* records 1..n, in order; a step emits at most the value of the next record;
\* when the stream has failed, the failing record is record n + 1, the error
\* is the one of that record, and nothing is emitted afterwards.
C22_InOrderUntilFirstFailure ==
    /\ [](/\ Len(values) <= Len(records)
          /\ \A n \in 1..Len(values) :
                 /\ JsonValid(records[n].line)
                 /\ values[n] = JsonParse(records[n].line)
          /\ pc = "failed" =>
                 /\ Len(values) < Len(records)
                 /\ ~JsonValid(records[Len(values) + 1].line)
                 /\ err.tag = "JsonLinesParseError"
                 /\ err.lineNumber = records[Len(values) + 1].lineNumber)
    /\ [][\/ values' = values
          \/ /\ pc # "failed"
             /\ Len(values) < Len(records)
             /\ values' = Append(values,
                                 JsonParse(records[Len(values) + 1].line))]_vars
    /\ [][pc = "failed" =>
              (pc' = "failed" /\ values' = values /\ err' = err)]_vars

\* C22 witness: the stream failed on its first record, with a second record
\* that decodes handed out by the same chunk and never decoded.
C22_Witness ==
    /\ pc = "failed"
    /\ values = <<>>
    /\ err.lineNumber = 1
    /\ Len(records) = 2
    /\ JsonValid(records[2].line)

\* ============================================ claims: the pending buffer
\* The part of the text fed to processChunk so far.
Fed == SubSeq(text, 1, Len(text) - Len(rest))

\* C23: a processChunk call whose chunk, appended to the buffer, leaves it
\* without "\n" returns no record, leaves lineNumber as it is and makes the
\* buffer the old buffer followed by the chunk; so as long as the text fed
\* holds no "\n", however many chunks it came in, the buffer is all of it.
C23_FeedWithoutNewlineOnlyAppends ==
    /\ [][(pc = "feeding" /\ pc' = "feeding") =>
             LET chunk == SubSeq(rest, 1, Len(rest) - Len(rest'))
             IN Count(lineBuffer.buffer \o chunk, "\n") = 0 =>
                    /\ records' = records
                    /\ lineBuffer'.lineNumber = lineBuffer.lineNumber
                    /\ lineBuffer'.buffer = lineBuffer.buffer \o chunk]_vars
    /\ []((pc = "feeding" /\ Count(Fed, "\n") = 0) =>
             /\ records = <<>>
             /\ lineBuffer = [buffer |-> Fed, lineNumber |-> 0])

\* C23 witness: a text of three characters without "\n" was fed in several
\* chunks, an empty one among them, and all of it is pending.
C23_Witness ==
    /\ pc = "feeding"
    /\ rest = <<>>
    /\ Count(text, "\n") = 0
    /\ Len(text) = 3
    /\ splitMid
    /\ nEmpty = 1
    /\ lineBuffer.buffer = text

\* C24: after every processChunk call the buffer holds no "\n" and is the
\* part of the text fed so far that follows its last "\n" (all of it when it
\* has none).
C24_PendingIsTextAfterLastNewline ==
    pc \in {"feeding", "flushed"} =>
        /\ Count(lineBuffer.buffer, "\n") = 0
        /\ lineBuffer.buffer = LastPiece(Fed)

\* C24 witness: two lines were fed, split in the middle of a line, and the
\* beginning of a third one is pending.
C24_Witness ==
    /\ pc = "feeding"
    /\ rest = <<>>
    /\ splitMid
    /\ Count(text, "\n") = 2
    /\ Len(records) = 2
    /\ lineBuffer.buffer # <<>>

\* ===================================== claims: stripComments, continued
\* The newlines of s, and nothing else of it.
NewlinesOf(s) == SelectSeq(s, LAMBDA c : c = "\n")

\* What the claim C25 lets stripComments return when the block comment that
\* opens at position p of the input is never closed.
UpToOpener(p) ==
    StripComments(SubSeq(input, 1, p - 1))
        \o NewlinesOf(SubSeq(input, p, Len(input)))

\* C25 as stated: whenever the input holds "/*" at a position p outside a
\* string literal, with no "*/" after it, the output is the stripped text
\* before p followed by the newlines of the rest.
C25_AnyOpenerOutsideString ==
    pc = "stripped" =>
        \A p \in 1..(Len(input) - 1) :
            (/\ input[p] = "/" /\ input[p + 1] = "*"
             /\ Lex(input, 1)[p] # "string"
             /\ NextClose(input, p + 2) > Len(input)) =>
                result = UpToOpener(p)

\* C25, amended: whenever the scan meets "/*" at a position p outside string
\* literals and outside comments (a line comment included), with no "*/"
\* after it, stripComments returns, and the output is the stripped text
\* before p followed by the newlines of the rest.
C25_UnterminatedBlockComment ==
    pc = "stripped" =>
        \A p \in 1..(Len(input) - 1) :
            (/\ input[p] = "/" /\ input[p + 1] = "*"
             /\ scanLog[p].visited
             /\ scanLog[p].before = StripFlags0
             /\ NextClose(input, p + 2) > Len(input)) =>
                /\ flags.inMultilineComment
                /\ result = UpToOpener(p)

\* C25 witness: code, then a block comment that is never closed and holds a
\* newline followed by text.
C25_Witness ==
    /\ pc = "stripped"
    /\ flags.inMultilineComment
    /\ input = <<"a", "/", "*", "\n", "a">>
    /\ result = <<"a", "\n">>

\* C26: the two characters of a comment opener are consumed together, and so
\* are those of "*/". After "/" and "/" or "*" met outside strings and
\* comments the second character is never looked at, so in "/*/" the comment
\* is still open after the second "/"; after "*/" met in a block comment the
\* "/" is never looked at, so it starts no comment and the scan goes on
\* outside comments with the character after it.
C26_OpenerAndCloserConsumedWhole ==
    \A j \in 1..(Len(scanLog) - 1) :
        /\ (/\ scanLog[j].visited
            /\ scanLog[j].before = StripFlags0
            /\ input[j] = "/"
            /\ input[j + 1] \in {"/", "*"}) =>
               /\ ~scanLog[j].pushed
               /\ ~scanLog[j + 1].visited
               /\ ~scanLog[j + 1].pushed
               /\ input[j + 1] = "*" =>
                      /\ scanLog[j + 1].after.inMultilineComment
                      /\ (j + 2 <= Len(scanLog) /\ input[j + 2] = "/") =>
                             /\ scanLog[j + 2].visited
                             /\ scanLog[j + 2].after.inMultilineComment
                             /\ ~scanLog[j + 2].pushed
        /\ (/\ scanLog[j].visited
            /\ scanLog[j].before.inMultilineComment
            /\ input[j] = "*"
            /\ input[j + 1] = "/") =>
               /\ ~scanLog[j + 1].visited
               /\ ~scanLog[j + 1].pushed
               /\ scanLog[j + 1].after = StripFlags0
               /\ j + 2 <= Len(scanLog) =>
                      /\ scanLog[j + 2].visited
                      /\ scanLog[j + 2].before = StripFlags0
                      /\ input[j + 2] = "*" => scanLog[j + 2].pushed

\* C26 witness: in "/*/*/" the comment opened by the first two characters
\* swallows the third and is closed by the last two.
C26_Witness ==
    /\ pc = "stripped"
    /\ input = <<"/", "*", "/", "*", "/">>
    /\ result = <<>>
    /\ flags = StripFlags0

\* ==================================== claims: streaming against batch
\* The array parseBatch(t) succeeds with when every non-blank line of t
\* decodes: the values of the lines of splitLines(t), in order.
BatchValues(t) ==
    [n \in 1..Len(SplitLines(t)) |-> ParseBatchLine(SplitLines(t), n - 1).value]

\* C27: streaming and batch decoding agree. For a text all of whose
\* non-blank lines decode, ended by a line terminator or not, and every
\* chunking, the stream ends normally having emitted exactly the values that
\* parseBatch returns for the text.
C27_StreamAgreesWithBatch ==
    FailingLines(text) = {} =>
        /\ pc # "failed"
        /\ pc = "done" => values = BatchValues(text)

\* ================================= claims: stripComments as a function
\* C28: stripComments is idempotent. The output of the scan is what
\* stripComments returns for the input, stripping it again returns it
\* unchanged, and wherever the output holds "//" or "/*" the pair lies in a
\* string literal: no two kept characters were brought together to form one.
C28_Idempotent ==
    pc = "stripped" =>
        /\ result = StripComments(input)
        /\ StripComments(result) = result
        /\ \A k \in 1..(Len(result) - 1) :
               (result[k] = "/" /\ result[k + 1] \in {"/", "*"}) =>
                   Lex(result, 1)[k] = "string"

\* C28 witness: a block comment was removed and a "/" that follows it was
\* kept, outside any string literal.
C28_Witness ==
    /\ pc = "stripped"
    /\ Count(input, "\"") = 0
    /\ \E j \in 1..Len(scanLog) :
           scanLog[j].visited /\ scanLog[j].before.inMultilineComment
    /\ \E k \in Pushed : input[k] = "/"
    /\ StripComments(result) = result

\* a is b with some of its characters deleted.
RECURSIVE IsSubsequence(_, _)
IsSubsequence(a, b) ==
    IF a = <<>> THEN TRUE
    ELSE IF b = <<>> THEN FALSE
    ELSE IF Head(a) = Head(b) THEN IsSubsequence(Tail(a), Tail(b))
    ELSE IsSubsequence(a, Tail(b))

\* C29: stripComments only deletes characters. At every moment of the scan
\* the output so far is a subsequence of the part of the input scanned so
\* far, so the output returned is a subsequence of the input and never
\* longer than it.
C29_OutputIsSubsequence ==
    /\ i <= Len(input)
    /\ Len(result) <= i
    /\ IsSubsequence(result, SubSeq(input, 1, i))
    /\ pc = "stripped" => ResultIsKeptText

\* C29 witness: of five characters three were kept, the first and the last
\* among them.
C29_Witness ==
    /\ pc = "stripped"
    /\ Len(input) = 5
    /\ Len(result) = 3
    /\ 1 \in Pushed
    /\ 5 \in Pushed

\* The positions of the input that the scan met inside a comment.
InComment ==
    {j \in 1..Len(scanLog) :
        /\ scanLog[j].visited
        /\ scanLog[j].before.inComment \/ scanLog[j].before.inMultilineComment}

\* C30: a quote inside a line comment or a block comment opens no string. It
\* is not kept and leaves the scan in the comment; the newline that ends a
\* line comment and the "*/" that ends a block comment leave the scan outside
\* strings and comments; so when every quote of the input lies in a comment,
\* the output holds no quote and the comments that follow are removed too.
C30_QuoteInCommentOpensNoString ==
    /\ \A j \in InComment :
           /\ ~scanLog[j].after.inString
           /\ input[j] = "\"" =>
                  /\ ~scanLog[j].pushed
                  /\ scanLog[j].after = scanLog[j].before
           /\ (scanLog[j].before.inComment /\ input[j] = "\n") =>
                  scanLog[j].after = StripFlags0
           /\ (/\ scanLog[j].before.inMultilineComment
               /\ input[j] = "*"
               /\ j < Len(input)
               /\ input[j + 1] = "/") =>
                  scanLog[j].after = StripFlags0
    /\ (/\ pc = "stripped"
        /\ \A j \in 1..Len(input) : input[j] = "\"" => j \in InComment) =>
           /\ Count(result, "\"") = 0
           /\ ~flags.inString
           /\ \A j \in 1..Len(input) :
                  j \in Pushed <=> Lex(input, 1)[j] # "comment"

\* C30 witness: a line comment that holds a quote, the newline that ends it,
\* and a comment after it that is removed as well.
C30_Witness ==
    /\ pc = "stripped"
    /\ input = <<"/", "/", "\"", "\n", "/", "/">>
    /\ result = <<"\n">>
    /\ flags.inComment

====
